---- MODULE Spec2Model ----
(***************************************************************************)
(* The token helper of the Acquisitions API: jwttoken.sign and             *)
(* jwttoken.verify, two synchronous wrappers around jsonwebtoken's          *)
(* jwt.sign and jwt.verify, keyed by the module-level JWT_SECRET_KEY and    *)
(* the fixed JWT_EXPIRES_IN.                                                *)
(*                                                                         *)
(* Numbers of seconds (the NumericDate claims iat, nbf, exp) are held in    *)
(* thousandths of a second, as Date.now() is, so that a fractional number   *)
(* of seconds is a value of the model and Math.floor does something.        *)
(* The HMAC is symbolic in its hash only: the key is first brought to the   *)
(* 64-byte block HMAC works with (its SHA-256 when it is longer than 64     *)
(* bytes, zero-padded otherwise), and the digest of a signing input is the  *)
(* triple (block key, header, payload), so two digests are equal exactly    *)
(* when block key and input are.                                            *)
(***************************************************************************)
EXTENDS Integers, Sequences, FiniteSets, TLC

VARIABLES
    env,             \* process.env.JWT_SECRET as it stands now
    envAtStart,      \* process.env.JWT_SECRET when the module was loaded
    JWT_SECRET_KEY,  \* the module-level constant of the token helper
    now,             \* Date.now(), in milliseconds
    calls,           \* every finished sign / verify call, in order
    log              \* what logger.error has been handed, in order

vars == <<env, envAtStart, JWT_SECRET_KEY, now, calls, log>>

----------------------------------------------------------------------------
(* Bounds and input sets *)

\* Calls made in one behaviour. Every call is made by the request handler
\* of its own request; a call is synchronous and Node runs it to completion,
\* so the calls of concurrent handlers interleave call by call and every
\* order of calls is an interleaving.
MaxCalls == 3

\* Date.now() when the process starts, in milliseconds: two days and 10.5 s.
FirstInstant == 172810500

DefaultSecret == "your_default_secret_key"

\* A configured secret of 80 ASCII characters, longer than HMAC's block.
LongSecret ==
    "acquisitions-production-jwt-secret-rotated-2025-long-random-key-0000000006ecf3b0"

\* The string the SHA-256 of LongSecret spells, written with JavaScript's
\* escapes for the characters that do not print. The 32 bytes of the
\* digest, in hex
\* 0fccb1cfae7e7311cb81347ad1947e03d98d1e2b2c374d676344deae5245112d, are
\* well-formed UTF-8 and hold no NUL: they are the bytes of this string of
\* 26 characters, a value JWT_SECRET can have. (The SHA-256 of the default
\* secret is not well-formed UTF-8: no string has it as its bytes.)
LongSecretDigest ==
    "\\u000f\\u0331\\u03ee~s\\u0011\\u02c14z\\u0454~\\u0003\\u064d\\u001e+,7MgcD\\u07aeRE\\u0011-"

\* process.env.JWT_SECRET: unset, set to the empty string, or set to one
\* of the two strings.
Unset == [set |-> FALSE, value |-> ""]
EnvValues ==
    {Unset, [set |-> TRUE, value |-> ""], [set |-> TRUE, value |-> LongSecret],
     [set |-> TRUE, value |-> LongSecretDigest]}

\* What a later change of the environment sets JWT_SECRET to.
RotatedEnv == [set |-> TRUE, value |-> "rotated-secret"]

----------------------------------------------------------------------------
(* Configuration: the module-level constants *)

\* process.env.JWT_SECRET || 'your_default_secret_key': undefined and the
\* empty string are both falsy.
SecretOrUnset(e) == IF e.set THEN e.value ELSE DefaultSecret
SecretFromEnv(e) == IF e.set /\ e.value # "" THEN e.value ELSE DefaultSecret

JWT_EXPIRES_IN == "1d"

\* The ms package on the string used here: '1d' is 86 400 000 ms.
ms(time) == IF time = "1d" THEN 86400000 ELSE 0

\* Math.floor of a number of seconds held in thousandths.
Floor(x) == x - (x % 1000)

----------------------------------------------------------------------------
(* Values *)

NoValue == [none |-> TRUE]
NoError == [name |-> "", message |-> ""]
LibError(n, m) == [name |-> n, message |-> m]

Extend(claims, n, v) ==
    [k \in DOMAIN claims \cup {n} |-> IF k = n THEN v ELSE claims[k]]

\* The instants the clock can stand at: the start, and the last
\* millisecond before and the first millisecond of the second in which a
\* token stamped at the start expires.
Instants ==
    LET e == Floor(FirstInstant) + ms(JWT_EXPIRES_IN)
    IN  {FirstInstant, e - 1, e}

\* Claims payloads a caller hands to sign. iat, nbf and exp are the
\* registered claims jsonwebtoken reads; 4.5 s is a fractional iat.
UserClaims == [userId |-> 42, role |-> "user"]
ObjectClaims ==
    {UserClaims,
     Extend(UserClaims, "iat", Floor(FirstInstant) - 5500),
     Extend(UserClaims, "nbf", Floor(FirstInstant) + 10000),
     Extend(UserClaims, "exp", Floor(FirstInstant) + 99000)}
Payloads ==
    {[type |-> "object", claims |-> c] : c \in ObjectClaims}
        \cup {[type |-> "string", text |-> "userId=42"]}

----------------------------------------------------------------------------
(* jsonwebtoken: jwt.sign(payload, secret, {expiresIn}) *)

\* A secret as the bytes the library keys the HMAC with. The bytes are
\* built from the UTF-8 bytes of the characters of text: nuls[1] NUL bytes
\* after them, then, for every further entry nuls[k], the 32 bytes of the
\* SHA-256 of what was built so far and nuls[k] NUL bytes after these.
WithNul(secret) == [secret EXCEPT !.nuls[Len(secret.nuls)] = @ + 1]
Sha256(secret) == [secret EXCEPT !.nuls = Append(@, 0)]

\* The UTF-8 bytes of a string of line 4 (a value of process.env holds no
\* NUL). The bytes of LongSecretDigest are the SHA-256 of LongSecret's:
\* one byte string, so one value.
JsString(s) ==
    IF s = LongSecretDigest
    THEN Sha256([text |-> LongSecret, nuls |-> <<0>>])
    ELSE [text |-> s, nuls |-> <<0>>]
Length(secret) ==
    (IF Len(secret.nuls) = 1 THEN Len(secret.text) ELSE 32)
        + secret.nuls[Len(secret.nuls)]

\* The key as HMAC uses it: a key longer than the 64-byte block is replaced
\* by its SHA-256, and the key is then padded with zero bytes to the block,
\* so that NUL bytes at the end of a key that was not replaced are the
\* same as padding.
BlockKey(secret) ==
    IF Length(secret) > 64
    THEN Sha256(secret)
    ELSE [secret EXCEPT !.nuls[Len(secret.nuls)] = 0]

\* HMAC-SHA256 of the signing input (header.payload) under a key.
Hmac(secret, header, payload) ==
    [key |-> BlockKey(secret), header |-> header, payload |-> payload]

\* The signature segment: the digest in base64url. Its 43 characters hold
\* 258 bits, the digest 256: delta is what was added to the digest bits
\* and spare what was put into the two unused bits of the last character,
\* both 0 in a signature as issued.
Signature(digest) == [present |-> TRUE, digest |-> digest, delta |-> 0, spare |-> 0]

Jws(header, payload, secret) ==
    [segments |-> 3, decodable |-> TRUE, header |-> header, payload |-> payload,
     signature |-> Signature(Hmac(secret, header, payload))]

\* const timestamp = payload.iat || Math.floor(Date.now() / 1000)
Timestamp(claims, at) ==
    IF "iat" \in DOMAIN claims /\ claims.iat # 0 THEN claims.iat ELSE Floor(at)

\* timespan('1d', timestamp): Math.floor(timestamp + ms(time) / 1000)
TimespanFromClock(time, iat) == Floor(now + ms(time))
timespan(time, iat) == Floor(iat + ms(time))

jwt_sign(payload, secret, at) ==
    IF secret = JsString("")
    THEN [ok |-> FALSE, error |-> LibError("Error", "secretOrPrivateKey must have a value")]
    ELSE IF payload.type = "undefined"
    THEN [ok |-> FALSE, error |-> LibError("Error", "payload is required")]
    ELSE IF payload.type # "object"
    THEN [ok |-> FALSE,
          error |-> LibError("Error", "invalid expiresIn option for string payload")]
    ELSE IF "exp" \in DOMAIN payload.claims
    THEN [ok |-> FALSE,
          error |-> LibError("Error",
              "Bad options.expiresIn option the payload already has an exp property.")]
    ELSE LET t == Timestamp(payload.claims, at)
             stamped == Extend(Extend(payload.claims, "iat", t),
                               "exp", timespan(JWT_EXPIRES_IN, t))
         IN  [ok |-> TRUE,
              value |-> Jws([alg |-> "HS256", typ |-> "JWT"], stamped, secret)]

----------------------------------------------------------------------------
(* jsonwebtoken: jwt.verify(token, secret) *)

\* jwa's HMAC verifier recomputes the signature and compares the two
\* base64url strings, so every character counts, the unused bits too.
SignatureBytesMatch(signature, expected) ==
    signature.digest = expected.digest /\ signature.delta = expected.delta
SignatureMatches(signature, expected) == signature = expected

\* clockTimestamp >= payload.exp
ExpiredAfter(clockTimestamp, exp) == clockTimestamp > exp
Expired(clockTimestamp, exp) == clockTimestamp >= exp

\* payload.nbf > clockTimestamp
NotActive(clockTimestamp, nbf) == nbf > clockTimestamp

\* jwt.decode in the place of jwt.verify: the payload as it is read, nothing verified.
jwt_decode(token, secret, at) ==
    IF token.segments # 3 \/ ~token.decodable
    THEN [ok |-> FALSE, error |-> LibError("JsonWebTokenError", "jwt malformed")]
    ELSE [ok |-> TRUE, value |-> token.payload]
jwt_verify(token, secret, at) ==
    LET clockTimestamp == Floor(at)
        fail(n, m) == [ok |-> FALSE, error |-> LibError(n, m)]
    IN  IF token.segments # 3
        THEN fail("JsonWebTokenError", "jwt malformed")
        ELSE IF ~token.decodable
        THEN fail("JsonWebTokenError", "invalid token")
        ELSE IF ~token.signature.present
        THEN fail("JsonWebTokenError", "jwt signature is required")
        ELSE IF token.header.alg \notin {"HS256", "HS384", "HS512"}
        THEN fail("JsonWebTokenError", "invalid algorithm")
        ELSE IF ~SignatureMatches(token.signature,
                    Signature(Hmac(secret, token.header, token.payload)))
        THEN fail("JsonWebTokenError", "invalid signature")
        ELSE IF "nbf" \in DOMAIN token.payload
                /\ NotActive(clockTimestamp, token.payload.nbf)
        THEN fail("NotBeforeError", "jwt not active")
        ELSE IF "exp" \in DOMAIN token.payload
                /\ Expired(clockTimestamp, token.payload.exp)
        THEN fail("TokenExpiredError", "jwt expired")
        ELSE [ok |-> TRUE, value |-> token.payload]

----------------------------------------------------------------------------
(* jwttoken: the two wrappers *)

\* The secret each wrapper hands to the library: the module-level constant.
SecretReadAtCall == JsString(SecretFromEnv(env))
signSecret == JsString(JWT_SECRET_KEY)
verifySecret == JsString(JWT_SECRET_KEY)

\* catch (error) { logger.error('Failed to authenticate tokern', error);
\*                 throw new Error('Failed to authenticate token'); }
LogEntry(error) ==
    [level |-> "error", message |-> "Failed to authenticate tokern", error |-> error]
NothingLogged(error) == << >>
Rethrown(error) == error

signLogged(error) == <<LogEntry(error)>>
signThrown(error) == LibError("Error", "Failed to authenticate token")
verifyLogged(error) == <<LogEntry(error)>>
verifyThrown(error) == LibError("Error", "Failed to authenticate token")

\* One finished call, as its caller saw it (ok, value or thrown) and as the
\* library ended inside it (cause).
Call(op, arg, r, thrown) ==
    [op |-> op, arg |-> arg, at |-> now, ok |-> r.ok,
     value |-> IF r.ok THEN r.value ELSE NoValue,
     cause |-> IF r.ok THEN NoError ELSE r.error,
     thrown |-> IF r.ok THEN NoError ELSE thrown]

sign(payload) ==
    /\ Len(calls) < MaxCalls
    /\ LET r == jwt_sign(payload, signSecret, now)
       IN  /\ calls' = Append(calls,
                 Call("sign", payload, r, IF r.ok THEN NoError ELSE signThrown(r.error)))
           /\ log' = IF r.ok THEN log ELSE log \o signLogged(r.error)
    /\ UNCHANGED <<env, envAtStart, JWT_SECRET_KEY, now>>

verify(token) ==
    /\ Len(calls) < MaxCalls
    /\ LET r == jwt_verify(token, verifySecret, now)
       IN  /\ calls' = Append(calls,
                 Call("verify", token, r, IF r.ok THEN NoError ELSE verifyThrown(r.error)))
           /\ log' = IF r.ok THEN log ELSE log \o verifyLogged(r.error)
    /\ UNCHANGED <<env, envAtStart, JWT_SECRET_KEY, now>>

----------------------------------------------------------------------------
(* The environment of the helper: clients, other services, the clock *)

Indices == 1..Len(calls)

\* Tokens this process has returned from sign.
Issued == {calls[i].value : i \in {j \in Indices : calls[j].op = "sign" /\ calls[j].ok}}

\* One character of the signature segment replaced: one that carries
\* digest bits, or only the unused bits of the last one.
Tampered(token) ==
    {[token EXCEPT !.signature.delta = 1], [token EXCEPT !.signature.spare = 1]}

\* The same helper in a service configured with another secret: every
\* secret line 4 can give there, of the three here, but this service's.
ForeignSecrets ==
    {JsString(DefaultSecret), JsString(LongSecret), JsString(LongSecretDigest)}
        \ {JsString(JWT_SECRET_KEY)}
ForeignToken(secret, at) ==
    jwt_sign([type |-> "object", claims |-> UserClaims], secret, at).value
Foreign == {ForeignToken(s, now) : s \in ForeignSecrets}

\* A token this service issued under the same secret two days before the
\* process started: tokens are kept by clients, not by the process.
Stale ==
    jwt_sign([type |-> "object", claims |-> UserClaims], JsString(JWT_SECRET_KEY),
             FirstInstant - 2 * ms(JWT_EXPIRES_IN)).value

\* A forged token of algorithm none: header and payload of a token of this
\* service, and an empty signature segment.
Unsigned ==
    LET t == jwt_sign([type |-> "object", claims |-> UserClaims],
                      JsString(JWT_SECRET_KEY), FirstInstant).value
    IN  [t EXCEPT !.header.alg = "none", !.signature.present = FALSE]

\* A string of n dot-separated segments that hold no JSON: "not.a.token".
Raw(n) ==
    [segments |-> n, decodable |-> FALSE, header |-> [alg |-> "", typ |-> ""],
     payload |-> [raw |-> TRUE],
     signature |-> [present |-> TRUE, digest |-> Hmac(JsString(""), [alg |-> "", typ |-> ""], [raw |-> TRUE]),
                    delta |-> 0, spare |-> 0]]
Malformed == {Raw(3)}

Presented ==
    Issued \cup UNION {Tampered(t) : t \in Issued} \cup Foreign \cup {Stale}
        \cup {Unsigned} \cup Malformed

AdvanceClock ==
    /\ \E t \in Instants : t > now /\ now' = t
    /\ UNCHANGED <<env, envAtStart, JWT_SECRET_KEY, calls, log>>

\* The process configuration changed after start.
SetEnv ==
    /\ env # RotatedEnv
    /\ env' = RotatedEnv
    /\ UNCHANGED <<envAtStart, JWT_SECRET_KEY, now, calls, log>>

Init ==
    /\ envAtStart \in EnvValues
    /\ env = envAtStart
    /\ JWT_SECRET_KEY = SecretFromEnv(envAtStart)
    /\ now = FirstInstant
    /\ calls = << >>
    /\ log = << >>

Next ==
    \/ \E payload \in Payloads : sign(payload)
    \/ \E token \in Presented : verify(token)
    \/ AdvanceClock
    \/ SetEnv

Spec == Init /\ [][Next]_vars

----------------------------------------------------------------------------
(* Properties *)

\* '1d' in milliseconds, and the one error both wrappers throw.
OneDay == 86400000
NormalizedError == [name |-> "Error", message |-> "Failed to authenticate token"]

SignCalls == {i \in Indices : calls[i].op = "sign"}
VerifyCalls == {j \in Indices : calls[j].op = "verify"}
Signed == {i \in SignCalls : calls[i].ok}

\* Verify calls on the very token sign call i returned.
VerifiesOf(i) == {j \in VerifyCalls : calls[j].arg = calls[i].value}

\* The payload verify returned is the caller's claims plus iat and exp.
SameClaims(returned, claims) ==
    /\ DOMAIN returned = DOMAIN claims \cup {"iat", "exp"}
    /\ \A k \in DOMAIN claims \ {"iat", "exp"} : returned[k] = claims[k]

Rejected(c) == ~c.ok /\ c.thrown = NormalizedError /\ c.value = NoValue

\* The whole second an instant lies in.
WholeSecond(t) == t - (t % 1000)

----------------------------------------------------------------------------
\* C1 as stated: for every claims payload C, verify on the token sign(C)
\* returned, at any time before the token's expiry, succeeds and returns
\* C's fields and values plus iat and exp.
C1_RoundTrip ==
    \A i \in Signed : \A j \in VerifiesOf(i) :
        calls[j].at < calls[i].value.payload.exp
            => calls[j].ok /\ SameClaims(calls[j].value, calls[i].arg.claims)

\* C1 amended: the same, for a verify that is also not earlier than the
\* not-before (nbf) C carries, counted in whole seconds.
C1_RoundTripOnceActive ==
    \A i \in Signed : \A j \in VerifiesOf(i) :
        LET C == calls[i].arg.claims
        IN  /\ calls[j].at < calls[i].value.payload.exp
            /\ ("nbf" \in DOMAIN C => C.nbf <= WholeSecond(calls[j].at))
            => calls[j].ok /\ SameClaims(calls[j].value, C)

\* A payload with a not-before was signed and, once active, verified.
C1_Witness ==
    \E i \in Signed : \E j \in VerifiesOf(i) :
        /\ "nbf" \in DOMAIN calls[i].arg.claims
        /\ calls[j].ok
        /\ calls[j].value.userId = 42 /\ calls[j].value.role = "user"
        /\ calls[j].value.nbf = calls[i].arg.claims.nbf

\* The token carries the signature this service's secret gives: a token
\* of this run, or the one a client kept from two days before.
Authentic(token) ==
    /\ token.decodable
    /\ token.signature =
          Signature(Hmac(JsString(SecretFromEnv(envAtStart)), token.header, token.payload))

\* C2 as stated: a token signed with issued-at t is rejected at any time
\* later than t + 1 day and accepted at any time up to and including
\* t + 1 day. Stated for tokens that carry no not-before and whose
\* issued-at is a whole number of seconds.
C2_ExpiryInclusive ==
    \A j \in VerifyCalls :
        LET P == calls[j].arg.payload
        IN  (Authentic(calls[j].arg) /\ "nbf" \notin DOMAIN P /\ P.iat % 1000 = 0)
            => /\ calls[j].at > P.iat + OneDay => Rejected(calls[j])
               /\ calls[j].at <= P.iat + OneDay => calls[j].ok

\* C2 amended: with E the whole second t + 1 day falls in, the token is
\* rejected at any time from E on (E itself included) and accepted at any
\* time before E that is not earlier than a not-before it carries.
C2_ExpiryExclusive ==
    \A j \in VerifyCalls :
        LET P == calls[j].arg.payload
            E == WholeSecond(P.iat + OneDay)
        IN  Authentic(calls[j].arg)
            => /\ calls[j].at >= E => Rejected(calls[j])
               /\ (/\ calls[j].at < E
                   /\ ("nbf" \in DOMAIN P => P.nbf <= WholeSecond(calls[j].at)))
                      => calls[j].ok

\* One token was accepted in the last millisecond before its expiry second
\* and rejected, for its expiry, in the first millisecond of it.
C2_Witness ==
    \E i \in VerifyCalls : \E j \in VerifyCalls :
        /\ calls[i].arg \in Issued /\ calls[j].arg = calls[i].arg
        /\ calls[i].at = calls[i].arg.payload.iat + OneDay - 1
        /\ calls[i].ok
        /\ calls[j].at = calls[j].arg.payload.iat + OneDay
        /\ Rejected(calls[j])
        /\ calls[j].cause.name = "TokenExpiredError"

\* C3: a token made from one sign returned by replacing one character of
\* its signature segment is rejected by verify with the verification error,
\* and verify returns no payload for it.
C3_TamperRejected ==
    \A i \in Signed : \A j \in VerifyCalls :
        calls[j].arg \in Tampered(calls[i].value) => Rejected(calls[j])

\* Inside the expiry window, a token whose last signature character had
\* only its unused bits changed was rejected for its signature.
C3_Witness ==
    \E i \in Signed : \E j \in VerifyCalls :
        /\ calls[j].arg = [calls[i].value EXCEPT !.signature.spare = 1]
        /\ calls[j].at < calls[i].value.payload.exp
        /\ Rejected(calls[j])
        /\ calls[j].cause.message = "invalid signature"

\* Two secrets that HMAC cannot tell apart: equal once each is replaced by
\* its SHA-256 when longer than 64 bytes and padded with zero bytes to 64
\* bytes otherwise.
SameHmacKey(a, b) == BlockKey(a) = BlockKey(b)

StartSecret == JsString(SecretFromEnv(envAtStart))

\* The token carries the signature sign makes under secret s.
SignedUnder(token, s) ==
    /\ token.decodable /\ token.signature.present
    /\ token.signature = Signature(Hmac(s, token.header, token.payload))

\* C4 as stated: a token signed under a secret other than the verifier's is
\* rejected with the verification error.
C4_WrongKeyRejected ==
    \A j \in VerifyCalls :
        \/ Rejected(calls[j])
        \/ \A s \in ForeignSecrets : ~(SignedUnder(calls[j].arg, s) /\ s # StartSecret)

\* C4 amended: a token signed under a secret that gives another HMAC key
\* than the verifier's is rejected with the verification error, and verify
\* returns a payload only for a token whose signature is the one the
\* verifier's own secret gives.
C4_OtherHmacKeyRejected ==
    \A j \in VerifyCalls :
        \/ Rejected(calls[j])
        \/ /\ \A s \in ForeignSecrets :
                 ~(SignedUnder(calls[j].arg, s) /\ ~SameHmacKey(s, StartSecret))
           /\ calls[j].ok
           /\ SignedUnder(calls[j].arg, StartSecret)

\* Tokens of two other services and a forged one without a signature were
\* presented to a service whose secret is LongSecret: the one signed under
\* the default secret was rejected for its signature, the one signed under
\* the string LongSecret's SHA-256 spells was accepted, the forged one was
\* rejected.
C4_Witness ==
    /\ JWT_SECRET_KEY = LongSecret
    /\ Length(StartSecret) > 64
    /\ \E j \in VerifyCalls :
          /\ calls[j].arg = ForeignToken(JsString(DefaultSecret), calls[j].at)
          /\ ~SameHmacKey(JsString(DefaultSecret), StartSecret)
          /\ Rejected(calls[j])
          /\ calls[j].cause.message = "invalid signature"
    /\ \E j \in VerifyCalls :
          /\ calls[j].arg = ForeignToken(JsString(LongSecretDigest), calls[j].at)
          /\ JsString(LongSecretDigest) # StartSecret
          /\ SameHmacKey(JsString(LongSecretDigest), StartSecret)
          /\ calls[j].ok
          /\ calls[j].value.userId = 42
    /\ \E j \in VerifyCalls :
          /\ calls[j].arg = Unsigned
          /\ Rejected(calls[j])
          /\ calls[j].cause.message = "jwt signature is required"

\* The other way round: a service whose secret is the string LongSecret's
\* SHA-256 spells, of 32 bytes, rejected the token signed under the default
\* secret and accepted the one signed under LongSecret.
C4_WitnessDigestVerifier ==
    /\ JWT_SECRET_KEY = LongSecretDigest
    /\ Length(StartSecret) = 32
    /\ \E j \in VerifyCalls :
          /\ calls[j].arg = ForeignToken(JsString(DefaultSecret), calls[j].at)
          /\ Rejected(calls[j])
          /\ calls[j].cause.message = "invalid signature"
    /\ \E j \in VerifyCalls :
          /\ calls[j].arg = ForeignToken(JsString(LongSecret), calls[j].at)
          /\ JsString(LongSecret) # StartSecret
          /\ SameHmacKey(JsString(LongSecret), StartSecret)
          /\ calls[j].ok
          /\ calls[j].value.userId = 42

\* C5: a failed sign and a failed verify raise errors of two different
\* kinds, so the error alone tells which operation failed.
C5_ErrorKindsDiffer ==
    \A i \in SignCalls : \A j \in VerifyCalls :
        ~calls[i].ok /\ ~calls[j].ok => calls[i].thrown # calls[j].thrown

\* C6: every failed verify raises the one normalized error, whatever the
\* library's error was (malformed, signature mismatch, expired), with none
\* of the library's detail in it, and returns no payload.
C6_UniformVerifyFailure ==
    \A j \in VerifyCalls :
        ~calls[j].ok =>
            /\ calls[j].thrown = NormalizedError
            /\ calls[j].thrown # calls[j].cause
            /\ calls[j].value = NoValue
            /\ \A k \in VerifyCalls : ~calls[k].ok => calls[k].thrown = calls[j].thrown

\* Three verify calls failed, one for each cause.
C6_Witness ==
    /\ \E j \in VerifyCalls : ~calls[j].ok /\ calls[j].cause.message = "invalid token"
    /\ \E j \in VerifyCalls : ~calls[j].ok /\ calls[j].cause.message = "invalid signature"
    /\ \E j \in VerifyCalls : ~calls[j].ok /\ calls[j].cause.message = "jwt expired"

HasFailed(c) == ~c.ok

\* C7: the log holds exactly one entry per failed call, in the order of the
\* calls, each of level error with the static message and the error that
\* caused the failure; a call that succeeds writes none.
C7_OneLogEntryPerFailure ==
    LET failed == SelectSeq(calls, HasFailed)
    IN  /\ Len(log) = Len(failed)
        /\ \A k \in 1..Len(failed) :
              /\ log[k].level = "error"
              /\ log[k].message = "Failed to authenticate tokern"
              /\ log[k].error = failed[k].cause

\* A sign failed, a verify failed and a call succeeded: two log entries.
C7_Witness ==
    /\ \E i \in SignCalls : ~calls[i].ok
    /\ \E j \in VerifyCalls : ~calls[j].ok
    /\ \E k \in Indices : calls[k].ok
    /\ Len(log) = 2

\* C8 as stated: the expiry of every token sign returns is exactly one day
\* after its issued-at.
C8_ExpiryOneDayAfterIat ==
    \A i \in Signed :
        calls[i].value.payload.exp = calls[i].value.payload.iat + OneDay

\* C8 amended: the expiry is issued-at + 1 day rounded down to a whole
\* second: exactly one day after a whole-second issued-at, which is what
\* sign stamps when the caller gives none, and never more than one day.
C8_ExpiryOneDayFloored ==
    \A i \in Signed :
        LET P == calls[i].value.payload
            C == calls[i].arg.claims
        IN  /\ P.exp = WholeSecond(P.iat + OneDay)
            /\ P.iat % 1000 = 0 => P.exp = P.iat + OneDay
            /\ P.exp <= P.iat + OneDay
            /\ "iat" \notin DOMAIN C =>
                  P.iat = WholeSecond(calls[i].at) /\ P.exp = P.iat + OneDay

\* sign returned a token it stamped itself, and one for a payload with a
\* fractional issued-at.
C8_Witness ==
    /\ \E i \in Signed :
          /\ "iat" \notin DOMAIN calls[i].arg.claims
          /\ calls[i].value.payload.iat % 1000 = 0
          /\ calls[i].value.payload.exp = calls[i].value.payload.iat + OneDay
    /\ \E i \in Signed :
          /\ calls[i].value.payload.iat % 1000 # 0
          /\ calls[i].value.payload.exp < calls[i].value.payload.iat + OneDay

\* C9 as stated: the secret is the configured JWT_SECRET when one is
\* present and the default when it is absent, whatever happens after start.
C9_SecretIsConfiguredValue ==
    JWT_SECRET_KEY = IF envAtStart.set THEN envAtStart.value ELSE DefaultSecret

\* C9 amended: the secret is the JWT_SECRET of process start when that is
\* present and not empty, and the default otherwise; no call and no later
\* change of the environment changes it or the key tokens are signed with.
C9_SecretFixedAtStart ==
    LET secret == IF envAtStart.set /\ envAtStart.value # ""
                  THEN envAtStart.value ELSE DefaultSecret
    IN  /\ JWT_SECRET_KEY = secret
        /\ \A i \in Signed :
              calls[i].value.signature.digest.key = BlockKey(JsString(secret))

\* JWT_SECRET was set but empty at start, was changed afterwards, and sign
\* still issues under the default.
C9_Witness ==
    /\ envAtStart = [set |-> TRUE, value |-> ""]
    /\ env = RotatedEnv
    /\ JWT_SECRET_KEY = DefaultSecret
    /\ \E i \in Signed :
          calls[i].value.signature.digest.key = JsString(DefaultSecret)

\* C10: two calls of the same operation with the same argument at the same
\* time have the same outcome (returned value or raised error), whatever
\* calls and changes of the environment ran before or between them.
C10_OutcomeIndependentOfOtherCalls ==
    \A i \in Indices : \A j \in Indices :
        (/\ calls[i].op = calls[j].op
         /\ calls[i].arg = calls[j].arg
         /\ calls[i].at = calls[j].at)
            => /\ calls[i].ok = calls[j].ok
               /\ calls[i].value = calls[j].value
               /\ calls[i].thrown = calls[j].thrown

\* The same call was made twice with a call of the other operation between
\* the two, after the environment had changed.
C10_Witness ==
    /\ Len(calls) = 3
    /\ env = RotatedEnv
    /\ calls[1].op = calls[3].op /\ calls[1].arg = calls[3].arg
    /\ calls[1].at = calls[3].at
    /\ calls[2].op # calls[1].op
    /\ calls[1].ok /\ ~calls[2].ok

====
